---- MODULE Spec2Model ----
(***************************************************************************)
(* Model of ansible/modules/am4g/gig_vm.py: one invocation of run_module   *)
(* (a "reconcile pass") against the cloud control plane, and re-runs of    *)
(* the module with the identical parameters.                               *)
(*                                                                         *)
(*   - the control plane (pc4g.CustomersApi) is the environment: its       *)
(*     state is the list of VMs of the cloudspace and the network / disk   *)
(*     attachments; every answer it gives is a nondeterministic choice     *)
(*     (HTTP 200 / 400 / 404 / 500 on get, any status string on a status   *)
(*     fetch, success or ApiException on every other call);                *)
(*   - Vmachine's fields (vm_id, vm_info, exists, name_to_be, extra_args)  *)
(*     and the position of run_module are the program state;               *)
(*   - calls, failed, faults, got, afterTimeout, fetched, start, pass and   *)
(*     prev are history variables: what the pass did; the program never    *)
(*     reads them;                                                         *)
(*   - other is the whole local state of a second module process that runs *)
(*     against the same cloudspace at the same time, and me tells which of *)
(*     the two processes the other variables belong to at the moment       *)
(*     (SpecPar; under Spec there is one process and other stays Idle)     *)
(***************************************************************************)
EXTENDS Integers, Sequences, FiniteSets, TLC

\* ---------------------------------------------------------------- bounds
MaxVms == 2          \* VMs in the cloudspace before the first pass
MaxList == 2         \* length of external_networks / persistent_disks
MaxPasses == 2       \* invocations of the module with the same parameters

\* ------------------------------------------------------- program constants
Attempts == 12       \* for _ in range(12)
NoId == 0            \* vm_id=None / image_id=None: falsy in "if vm_id:"
Unset == -1          \* an attribute of self that was never assigned

Names == {"web", "Web"}
States == {"present", "absent", "change", "restart"}
Statuses == {"RUNNING", "HALTED", "DEPLOYING"}
None == [vm_id |-> NoId, name |-> "None"]       \* Python None as a vm_info
NoName == "unset"                               \* self.name_to_be unassigned

\* ----------------------------------------------------------------- inputs
\* An AttachmentSpec of the playbook: {network, kind, ip}.
ExtNet(k) == [network |-> k, kind |-> "virtio", ip |-> 10 + k]

\* The list <<n, n-1, .., 1>>: distinct elements, not in ascending order.
Down(n) == [i \in 1..n |-> n + 1 - i]

NetLists == {[i \in 1..n |-> ExtNet(Down(n)[i])] : n \in 0..MaxList}
DiskLists == {Down(n) : n \in 0..MaxList}

\* module.params. An option that the branch of its state never reads keeps its
\* default of module_args (image_id None, permanently_delete False, the lists
\* empty); the options a branch reads take every value.
Defaults ==
  [image_id |-> NoId, description |-> "VM Created by Ansible", vcpus |-> 1,
   memory |-> 1024, user_data |-> NoId, disk_size |-> 30,
   enable_vm_agent |-> FALSE, boot_type |-> "bios", private_ip |-> "",
   ephemeral_disks |-> <<>>, permanently_delete |-> FALSE,
   external_networks |-> <<>>, persistent_disks |-> <<>>]

\* The playbook names its VM "web"; the cloudspace's VMs take either name, so
\* the name matches, differs in case only, or is shared by several VMs.
Target == [vm_id : 0..MaxVms, name : {"web"}]

Playbook(state, target, options) ==
  [k \in {"state", "vm_id", "name"} \cup DOMAIN options |->
     IF k = "state" THEN state
     ELSE IF k = "vm_id" THEN target.vm_id
     ELSE IF k = "name" THEN target.name
     ELSE options[k]]

\* What travels with the create call besides the fixed options: nothing, or
\* two ephemeral disks and a user data.
Extras == {[ephemeral_disks |-> <<>>, user_data |-> NoId],
           [ephemeral_disks |-> <<30, 40>>, user_data |-> 7]}

PresentOptions ==
  {[Defaults EXCEPT !.image_id = i, !.ephemeral_disks = e.ephemeral_disks,
                    !.user_data = e.user_data,
                    !.external_networks = n, !.persistent_disks = d] :
     i \in {NoId, 45}, e \in Extras, n \in NetLists, d \in DiskLists}

AbsentOptions ==
  {[Defaults EXCEPT !.permanently_delete = p, !.persistent_disks = d] :
     p \in BOOLEAN, d \in DiskLists}

Params ==
  {Playbook("present", t, o) : t \in Target, o \in PresentOptions}
  \cup {Playbook("absent", t, o) : t \in Target, o \in AbsentOptions}
  \cup {Playbook(s, t, Defaults) : s \in States \ {"present", "absent"}, t \in Target}

Modules == [params : Params, check_mode : BOOLEAN]

\* The cloudspaces the first pass may meet: n VMs with ids 1..n, any names.
VmLists ==
  UNION {{[i \in 1..n |-> [vm_id |-> i, name |-> f[i]]] : f \in [1..n -> Names]}
           : n \in 0..MaxVms}

VARIABLES
  vms, nics, disks, next_id,                 \* the control plane
  module,                                    \* AnsibleModule: params, check_mode
  vm_id, vm_info, exists, name_to_be,        \* Vmachine's attributes
  extra_args,                                \* Vmachine.extra_args (**args)
  locals,                                    \* create_vm / delete_vm: the two lists
  pc, phase, idx, attempt, sleeps, fetched,  \* position in run_module
  result, outcome, error,                    \* what the caller receives
  calls, failed, faults, got, afterTimeout,  \* history of this pass
  start, pass, prev,                         \* history across passes
  other, me                                  \* a second, concurrent pass

remote == <<vms, nics, disks, next_id>>
self == <<vm_id, vm_info, exists, name_to_be, extra_args, locals>>
loop == <<phase, idx, attempt, sleeps, fetched>>
out == <<result, outcome, error>>
hist == <<start, pass, prev, other, me>>
trail == <<calls, faults, got, afterTimeout>>
vars == <<remote, module, self, pc, loop, out, failed, trail, hist>>

\* ------------------------------------------------------------ pure helpers
Ids(list) == {list[i].vm_id : i \in 1..Len(list)}

\* get_virtual_machine_info's answer for an id the control plane holds.
Info(list, id) == list[CHOOSE i \in 1..Len(list) : list[i].vm_id = id]

\* The HTTP statuses get_virtual_machine_info can answer with for id.
Responses(id) == IF id \in Ids(vms) THEN {200, 400, 500} ELSE {404, 400, 500}

\* Mutant of FirstMatch: the scan stops one element short of the end.
FirstMatchSkipsLast(vm_list, name) ==
  IF \E i \in 1..(Len(vm_list) - 1) : vm_list[i].name = name
  THEN CHOOSE i \in 1..(Len(vm_list) - 1) :
         /\ vm_list[i].name = name
         /\ \A j \in 1..(i - 1) : vm_list[j].name # name
  ELSE 0

\* Mutant of FirstMatch: the last VM of that name is selected.
LastMatch(vm_list, name) ==
  IF \E i \in 1..Len(vm_list) : vm_list[i].name = name
  THEN CHOOSE i \in 1..Len(vm_list) :
         /\ vm_list[i].name = name
         /\ \A j \in (i + 1)..Len(vm_list) : vm_list[j].name # name
  ELSE 0

\* Mutant of FirstMatch: the names are compared without regard to case.
Lower(name) == IF name = "Web" THEN "web" ELSE name

FirstMatchIgnoresCase(vm_list, name) ==
  IF \E i \in 1..Len(vm_list) : Lower(vm_list[i].name) = Lower(name)
  THEN CHOOSE i \in 1..Len(vm_list) :
         /\ Lower(vm_list[i].name) = Lower(name)
         /\ \A j \in 1..(i - 1) : Lower(vm_list[j].name) # Lower(name)
  ELSE 0

\* for vm in vm_list: if vm.name == name: ... (index of the first match, 0 if none)
FirstMatch(vm_list, name) ==
  IF \E i \in 1..Len(vm_list) : vm_list[i].name = name
  THEN CHOOSE i \in 1..Len(vm_list) :
         /\ vm_list[i].name = name
         /\ \A j \in 1..(i - 1) : vm_list[j].name # name
  ELSE 0

\* Mutant of find_vm_by_id: a 404 is answered with None instead of BadVMConfig.
find_vm_by_id_none_on_404(resp, id) ==
  IF resp = 200 THEN [kind |-> "return", info |-> Info(vms, id)]
  ELSE IF resp = 400 THEN [kind |-> "raise", info |-> None]
  ELSE [kind |-> "return", info |-> None]

\* Vmachine._find_vm_by_id: what it returns or raises for the adapter's answer.
find_vm_by_id(resp, id) ==
  IF resp = 200 THEN [kind |-> "return", info |-> Info(vms, id)]
  ELSE IF resp = 404 THEN [kind |-> "raise", info |-> None]
  ELSE IF resp = 400 THEN [kind |-> "raise", info |-> None]
  ELSE [kind |-> "return", info |-> None]

\* Mutant of IsStable: HALTED is not taken for a stable status.
IsStableRunningOnly(status) == status = "RUNNING"

\* if updated_info.status in ("RUNNING", "HALTED")
IsStable(status) == status \in {"RUNNING", "HALTED"}

\* "VM %s DID NOT CHANGE" % vm.vm_id
DidNotChange(id) == <<"VM ", id, " DID NOT CHANGE">>

\* Vmachine.__init__: self.extra_args = args (the params __init__ does not name)
ExtraArgs(params) ==
  [k \in DOMAIN params \ {"state", "vm_id", "name"} |-> params[k]]

\* One mutating call as the control plane receives it.
Call(op, id, arg) == [op |-> op, vm |-> id, arg |-> arg]

\* dict(changed=False): the result record before any branch fills it in.
Result0 == [changed |-> FALSE]

NoLocals == [external_networks |-> <<>>, persistent_disks |-> <<>>]

\* No status was fetched since the last mutating call.
NoFetch == [vm |-> Unset, status |-> "none"]

NoPrev == [outcome |-> "none", result |-> Result0, vm_id |-> Unset, faults |-> FALSE]

\* ------------------------------------------------- how a pass can end
\* An exception nobody catches leaves run_module: no result is delivered.
Raise(err, where) ==
  /\ pc' = "done"
  /\ outcome' = "raise"
  /\ error' = err
  /\ failed' = where
  /\ result' = result

\* except BadVMConfig: module.fail_json(msg=..., **result)
FailJson(err, where) ==
  /\ pc' = "done"
  /\ outcome' = "fail_json"
  /\ error' = err
  /\ failed' = where
  /\ result' = result

\* module.exit_json(**result)
ExitJson(res) ==
  /\ pc' = "done"
  /\ outcome' = "exit_json"
  /\ result' = res
  /\ UNCHANGED <<error, failed>>

\* ---------------------------------------------- where the loops continue
Goto(p, ph, i) == [pc |-> p, phase |-> ph, idx |-> i]

\* Mutant of DisksPos: the disk attaches are issued without the wait before them.
DisksPosNoWait(l, i) ==
  IF i <= Len(l.persistent_disks) THEN Goto("call", "disks", i)
  ELSE Goto("created", "disks", i)

\* for disk in disks (_attach_extra_disks), then "return True"
DisksPos(l, i) ==
  IF i <= Len(l.persistent_disks) THEN Goto("wait", "disks", i)
  ELSE Goto("created", "disks", i)

\* Mutant of NetsPos: the network loop is skipped.
NetsSkipped(l, i) == DisksPos(l, 1)

\* for ext_net in external_networks, then "if persistent_disks:"
NetsPos(l, i) ==
  IF i <= Len(l.external_networks) THEN Goto("wait", "nets", i)
  ELSE DisksPos(l, 1)

\* Mutant of DetachPos: the delete call is issued without detaching first.
DetachSkipped(l, i) == Goto("delete", "detach", i)

\* for disk in disks (_detach_extra_disks), then delete_virtual_machine
DetachPos(l, i) ==
  IF i <= Len(l.persistent_disks) THEN Goto("wait", "detach", i)
  ELSE Goto("delete", "detach", i)

Go(pos) ==
  /\ pc' = pos.pc
  /\ phase' = pos.phase
  /\ idx' = pos.idx
  /\ attempt' = 0
  /\ sleeps' = 0
  /\ fetched' = NoFetch

\* ------------------------------------------------------------------- Init
\* No second process runs.
Idle == [pc |-> "idle"]

\* A module process that was handed its parameters and has not made a call.
Started ==
  /\ vms \in VmLists
  /\ nics = {}
  /\ disks = {<<v, d>> : v \in Ids(vms), d \in 1..MaxList}
  /\ next_id = Len(vms) + 1
  /\ module \in Modules
  /\ vm_id = Unset
  /\ vm_info = None
  /\ exists = FALSE
  /\ name_to_be = NoName
  /\ extra_args = ExtraArgs(module.params)
  /\ locals = NoLocals
  /\ pc = "start"
  /\ phase = "none"
  /\ idx = 0
  /\ attempt = 0
  /\ sleeps = 0
  /\ fetched = NoFetch
  /\ result = Result0
  /\ outcome = "none"
  /\ error = "none"
  /\ calls = <<>>
  /\ failed = "none"
  /\ faults = FALSE
  /\ got = 0
  /\ afterTimeout = FALSE
  /\ start = [vms |-> vms, nics |-> nics, disks |-> disks]
  /\ pass = 1
  /\ prev = NoPrev

Init ==
  /\ Started
  /\ other = Idle
  /\ me = 1

\* ------------------------------------------------ Vmachine.__init__ (resolve)
\* if vm_id: self.vm_id = vm_id; self.vm_info = self._find_vm_by_id(vm_id); ...
init_by_id ==
  /\ pc = "start"
  /\ module.params.vm_id # NoId
  /\ \E resp \in Responses(module.params.vm_id) :
       LET r == find_vm_by_id(resp, module.params.vm_id) IN
       /\ vm_id' = module.params.vm_id
       /\ faults' = (faults \/ resp \in {400, 500})
       /\ got' = resp
       /\ IF r.kind = "raise"
          THEN /\ FailJson("BadVMConfig", "resolve")
               /\ UNCHANGED <<vm_info, exists, name_to_be>>
          ELSE IF r.info = None
          THEN \* self.exists = True, then None.name raises AttributeError
               /\ Raise("AttributeError", "resolve")
               /\ vm_info' = None
               /\ exists' = TRUE
               /\ UNCHANGED name_to_be
          ELSE /\ vm_info' = r.info
               /\ exists' = TRUE
               /\ name_to_be' = IF module.params.name # r.info.name
                                THEN module.params.name ELSE name_to_be
               /\ pc' = "resolved"
               /\ UNCHANGED <<out, failed>>
  /\ UNCHANGED <<remote, module, extra_args, locals, loop, calls, afterTimeout, hist>>

\* else: self.vm_info = self._find_vm_by_name(name): the list call and the scan
find_vm_by_name ==
  /\ pc = "start"
  /\ module.params.vm_id = NoId
  /\ \E ok \in BOOLEAN :
       IF ~ok
       THEN /\ Raise("ApiException", "resolve")
            /\ faults' = TRUE
            /\ UNCHANGED <<vm_id, vm_info, exists, name_to_be>>
       ELSE LET m == FirstMatch(vms, module.params.name) IN
            IF m = 0
            THEN /\ vm_info' = None
                 /\ exists' = FALSE
                 /\ name_to_be' = module.params.name
                 /\ pc' = "resolved"
                 /\ UNCHANGED <<vm_id, out, failed, faults>>
            ELSE /\ vm_id' = vms[m].vm_id
                 /\ pc' = "refetch"
                 /\ UNCHANGED <<vm_info, exists, name_to_be, out, failed, faults>>
  /\ UNCHANGED <<remote, module, extra_args, locals, loop, calls, got, afterTimeout, hist>>

\* return self._find_vm_by_id(vm.vm_id), and __init__'s "if self.vm_info:"
find_vm_by_name_refetch ==
  /\ pc = "refetch"
  /\ \E resp \in Responses(vm_id) :
       LET r == find_vm_by_id(resp, vm_id) IN
       /\ faults' = (faults \/ resp \in {400, 500})
       /\ got' = resp
       /\ IF r.kind = "raise"
          THEN /\ FailJson("BadVMConfig", "resolve")
               /\ UNCHANGED <<vm_info, exists, name_to_be>>
          ELSE IF r.info = None
          THEN /\ vm_info' = None
               /\ exists' = FALSE
               /\ name_to_be' = module.params.name
               /\ pc' = "resolved"
               /\ UNCHANGED <<out, failed>>
          ELSE /\ vm_info' = r.info
               /\ exists' = TRUE
               /\ pc' = "resolved"
               /\ UNCHANGED <<name_to_be, out, failed>>
  /\ UNCHANGED <<remote, module, vm_id, extra_args, locals, loop, calls, afterTimeout, hist>>

\* ------------------------------------------------------------- run_module
\* Mutant of InCheckMode: check mode is not consulted.
NeverCheckMode == FALSE

\* if module.check_mode:
InCheckMode == module.check_mode

\* if module.check_mode: module.exit_json(**result)
check_mode_exit ==
  /\ pc = "resolved"
  /\ InCheckMode
  /\ ExitJson(result)
  /\ UNCHANGED <<remote, module, self, loop, trail, hist>>

\* Mutant of Branch: vm.exists is not consulted.
BranchIgnoresFound(state, found) ==
  IF state = "present" THEN "create_vm"
  ELSE IF state = "change" THEN "do_changes"
  ELSE IF state = "absent" THEN "delete_vm"
  ELSE "unrecognized"

\* The if / elif chain of run_module on vm.state and vm.exists.
Branch(state, found) ==
  IF state = "present" THEN (IF ~found THEN "create_vm" ELSE "present_already")
  ELSE IF state = "change" THEN "do_changes"
  ELSE IF state = "absent" THEN (IF found THEN "delete_vm" ELSE "absent_already")
  ELSE "unrecognized"

\* Mutant of image_id_missing: the check is left out.
image_id_never_missing(args) == FALSE

\* if not self.extra_args['image_id']
image_id_missing(args) == args["image_id"] = NoId

\* payload = {'userdata': user_data} if user_data else {}
Payload(args) ==
  IF args["user_data"] # NoId THEN [userdata |-> args["user_data"]] ELSE <<>>

\* data_disks added when ephemeral_disks is non-empty, then the five
\* transport-only keys deleted: the keyword arguments of the create call.
Removed == {"user_data", "permanently_delete", "external_networks",
            "persistent_disks", "ephemeral_disks"}

\* Mutant of CreateArgs: persistent_disks is not deleted from the arguments.
CreateArgsKeepsDisks(args) ==
  LET added == IF args["ephemeral_disks"] # <<>> THEN {"data_disks"} ELSE {} IN
  [k \in ((DOMAIN args) \cup added) \ (Removed \ {"persistent_disks"}) |->
     IF k = "data_disks" THEN args["ephemeral_disks"] ELSE args[k]]

\* self.extra_args as the create call receives it (**self.extra_args)
CreateArgs(args) ==
  LET added == IF args["ephemeral_disks"] # <<>> THEN {"data_disks"} ELSE {} IN
  [k \in ((DOMAIN args) \cup added) \ Removed |->
     IF k = "data_disks" THEN args["ephemeral_disks"] ELSE args[k]]

\* external_networks = extra_args[..] if extra_args[..] else [] (same for disks)
Locals(args) ==
  [external_networks |-> args["external_networks"],
   persistent_disks |-> args["persistent_disks"]]

\* self.vm_id = vm_create_resp.vm_id
CreatedId(resp_vm_id) == resp_vm_id

\* if vm.state == "present": if not vm.exists: changed = vm.create_vm()
\* (create_vm up to and including the create call)
create_vm ==
  /\ pc = "resolved"
  /\ ~InCheckMode
  /\ Branch(module.params.state, exists) = "create_vm"
  /\ IF image_id_missing(extra_args)
     THEN /\ Raise("BadVMConfig", "validate")
          /\ UNCHANGED <<remote, vm_id, extra_args, locals, loop, calls, faults>>
     ELSE /\ locals' = Locals(extra_args)
          /\ extra_args' = CreateArgs(extra_args)
          /\ \E ok \in BOOLEAN :
               LET arg == [name |-> name_to_be, payload |-> Payload(extra_args),
                           kwargs |-> CreateArgs(extra_args)] IN
               IF ok
               THEN /\ vms' = Append(vms, [vm_id |-> next_id, name |-> name_to_be])
                    /\ next_id' = next_id + 1
                    /\ vm_id' = CreatedId(next_id)
                    /\ calls' = Append(calls, Call("create", next_id, arg))
                    /\ Go(NetsPos(Locals(extra_args), 1))
                    /\ UNCHANGED <<nics, disks, out, failed, faults>>
               ELSE /\ calls' = Append(calls, Call("create", NoId, arg))
                    /\ Raise("ApiException", "call")
                    /\ faults' = TRUE
                    /\ UNCHANGED <<remote, vm_id, loop>>
  /\ UNCHANGED <<module, vm_info, exists, name_to_be, got, afterTimeout, hist>>

\* Mutant of vm_created: the result also carries the id the create call returned.
vm_created_returns_id ==
  /\ pc = "created"
  /\ ExitJson([changed |-> TRUE, status |-> <<"VM CREATED">>, vm_id |-> vm_id])
  /\ UNCHANGED <<remote, module, self, loop, trail, hist>>

\* return True; result['status'] = "VM CREATED"; exit_json
vm_created ==
  /\ pc = "created"
  /\ ExitJson([changed |-> TRUE, status |-> <<"VM CREATED">>])
  /\ UNCHANGED <<remote, module, self, loop, trail, hist>>

\* Mutant of present_already: the no-op is reported as a change.
present_already_changed ==
  /\ pc = "resolved"
  /\ ~InCheckMode
  /\ Branch(module.params.state, exists) = "present_already"
  /\ ExitJson([changed |-> TRUE, status |-> <<"VM PRESENT ALREADY">>])
  /\ UNCHANGED <<remote, module, self, loop, trail, hist>>

\* else: changed = False; result['status'] = "VM PRESENT ALREADY"
present_already ==
  /\ pc = "resolved"
  /\ ~InCheckMode
  /\ Branch(module.params.state, exists) = "present_already"
  /\ ExitJson([changed |-> FALSE, status |-> <<"VM PRESENT ALREADY">>])
  /\ UNCHANGED <<remote, module, self, loop, trail, hist>>

\* elif vm.state == "change": changed = vm.do_changes() (always False);
\* the status string reads vm.vm_id
do_changes ==
  /\ pc = "resolved"
  /\ ~InCheckMode
  /\ Branch(module.params.state, exists) = "do_changes"
  /\ IF vm_id = Unset
     THEN Raise("AttributeError", "status")
     ELSE ExitJson([changed |-> FALSE, status |-> DidNotChange(vm_id)])
  /\ UNCHANGED <<remote, module, self, loop, trail, hist>>

\* elif vm.state == "absent": if vm.exists: vm.delete_vm(permanently_delete)
\* (delete_vm up to the first detach or, with no disks, the delete call)
delete_vm ==
  /\ pc = "resolved"
  /\ ~InCheckMode
  /\ Branch(module.params.state, exists) = "delete_vm"
  /\ locals' = Locals(extra_args)
  /\ Go(DetachPos(Locals(extra_args), 1))
  /\ UNCHANGED <<remote, module, vm_id, vm_info, exists, name_to_be, extra_args,
                 out, failed, trail, hist>>

\* else: changed = False; result['status'] = "VM ABSENT ALREADY"
absent_already ==
  /\ pc = "resolved"
  /\ ~InCheckMode
  /\ Branch(module.params.state, exists) = "absent_already"
  /\ ExitJson([changed |-> FALSE, status |-> <<"VM ABSENT ALREADY">>])
  /\ UNCHANGED <<remote, module, self, loop, trail, hist>>

\* else: module.fail_json(msg="state '%s' unrecognized" % vm.state)
state_unrecognized ==
  /\ pc = "resolved"
  /\ ~InCheckMode
  /\ Branch(module.params.state, exists) = "unrecognized"
  /\ FailJson("unrecognized", "state")
  /\ UNCHANGED <<remote, module, self, loop, trail, hist>>

\* -------------------------------------------------- _wait_vm_running_status
\* Mutant of wait_step: the wait polls until the status is stable.
wait_step_unbounded(n, status) ==
  IF IsStable(status) THEN "break" ELSE "again"

\* One iteration of "for _ in range(12)" that fetched status as its n-th fetch:
\* break, another iteration, or the loop's else clause.
wait_step(n, status) ==
  IF IsStable(status) THEN "break"
  ELSE IF n < Attempts THEN "again"
  ELSE "exhausted"

\* The else clause builds RuntimeError(...) and drops it: the method returns.
after_exhausted == "return"

wait_vm_running_status ==
  /\ pc = "wait"
  /\ \E ans \in Statuses \cup {"ApiException"} :
       IF ans = "ApiException"
       THEN /\ Raise("ApiException", "fetch")
            /\ faults' = TRUE
            /\ UNCHANGED <<attempt, sleeps, fetched>>
       ELSE LET w == wait_step(attempt + 1, ans) IN
            /\ attempt' = attempt + 1
            /\ fetched' = [vm |-> vm_id, status |-> ans]
            /\ sleeps' = IF w = "break" THEN sleeps ELSE sleeps + 1
            /\ UNCHANGED faults
            /\ IF w = "again"
               THEN UNCHANGED <<pc, out, failed>>
               ELSE IF w = "break" \/ after_exhausted = "return"
               THEN /\ pc' = "call"
                    /\ UNCHANGED <<out, failed>>
               ELSE Raise("RuntimeError", "wait")
  /\ UNCHANGED <<remote, module, self, phase, idx, calls, got, afterTimeout, hist>>

\* The wait that just ended made all its fetches without seeing a stable status.
Exhausted == sleeps = Attempts

\* --------------------------------------------------- the Resource Attacher
\* Mutant of Elem: the list is walked from its end.
ElemReversed(list, i) == list[Len(list) + 1 - i]

\* for x in list: the element the idx-th iteration handles
Elem(list, i) == list[i]

\* attach_external_networks_virtual_machine(.., self.vm_id, ext_net['network'], ..)
configure_external_networks ==
  /\ pc = "call"
  /\ phase = "nets"
  /\ LET ext_net == Elem(locals.external_networks, idx) IN
     \E ok \in BOOLEAN :
       /\ calls' = Append(calls, Call("attach_net", vm_id, ext_net))
       /\ IF ok
          THEN /\ nics' = nics \cup {<<vm_id, ext_net.network>>}
               /\ Go(NetsPos(locals, idx + 1))
               /\ UNCHANGED <<vms, disks, next_id, out, failed, faults>>
          ELSE /\ Raise("ApiException", "call")
               /\ faults' = TRUE
               /\ UNCHANGED <<remote, loop>>
  /\ afterTimeout' = (afterTimeout \/ Exhausted)
  /\ UNCHANGED <<module, self, got, hist>>

\* attach_disk_virtual_machine(.., self.vm_id, disk)
attach_extra_disks ==
  /\ pc = "call"
  /\ phase = "disks"
  /\ LET disk == Elem(locals.persistent_disks, idx) IN
     \E ok \in BOOLEAN :
       /\ calls' = Append(calls, Call("attach_disk", vm_id, [disk |-> disk]))
       /\ IF ok
          THEN /\ disks' = disks \cup {<<vm_id, disk>>}
               /\ Go(DisksPos(locals, idx + 1))
               /\ UNCHANGED <<vms, nics, next_id, out, failed, faults>>
          ELSE /\ Raise("ApiException", "call")
               /\ faults' = TRUE
               /\ UNCHANGED <<remote, loop>>
  /\ afterTimeout' = (afterTimeout \/ Exhausted)
  /\ UNCHANGED <<module, self, got, hist>>

\* detach_disk_virtual_machine(.., self.vm_id, disk)
detach_extra_disks ==
  /\ pc = "call"
  /\ phase = "detach"
  /\ LET disk == Elem(locals.persistent_disks, idx) IN
     \E ok \in BOOLEAN :
       /\ calls' = Append(calls, Call("detach_disk", vm_id, [disk |-> disk]))
       /\ IF ok
          THEN /\ disks' = disks \ {<<vm_id, disk>>}
               /\ Go(DetachPos(locals, idx + 1))
               /\ UNCHANGED <<vms, nics, next_id, out, failed, faults>>
          ELSE /\ Raise("ApiException", "call")
               /\ faults' = TRUE
               /\ UNCHANGED <<remote, loop>>
  /\ afterTimeout' = (afterTimeout \/ Exhausted)
  /\ UNCHANGED <<module, self, got, hist>>

\* delete_virtual_machine(.., self.vm_id, permanently=permanently)
DeleteArg(permanently) == [permanently |-> permanently]

delete_virtual_machine ==
  /\ pc = "delete"
  /\ \E ok \in BOOLEAN :
       /\ calls' = Append(calls, Call("delete", vm_id,
                                      DeleteArg(module.params.permanently_delete)))
       /\ IF ok
          THEN /\ vms' = SelectSeq(vms, LAMBDA v : v.vm_id # vm_id)
               /\ nics' = {a \in nics : a[1] # vm_id}
               /\ disks' = {a \in disks : a[1] # vm_id}
               /\ pc' = "deleted"
               /\ UNCHANGED <<next_id, out, failed, faults>>
          ELSE /\ Raise("ApiException", "call")
               /\ faults' = TRUE
               /\ UNCHANGED remote
  /\ UNCHANGED <<module, self, loop, got, afterTimeout, hist>>

\* return True; result['status'] = "VM DELETED"; exit_json
vm_deleted ==
  /\ pc = "deleted"
  /\ ExitJson([changed |-> TRUE, status |-> <<"VM DELETED">>])
  /\ UNCHANGED <<remote, module, self, loop, trail, hist>>

\* ------------------------------------------------------------ the next pass
\* After a pass that returned a result the playbook is run again with the
\* identical parameters: a new process, a new Vmachine, the control plane as
\* the previous pass left it.
rerun ==
  /\ pc = "done"
  /\ outcome = "exit_json"
  /\ pass < MaxPasses
  /\ pass' = pass + 1
  /\ prev' = [outcome |-> outcome, result |-> result, vm_id |-> vm_id,
              faults |-> faults]
  /\ start' = [vms |-> vms, nics |-> nics, disks |-> disks]
  /\ vm_id' = Unset
  /\ vm_info' = None
  /\ exists' = FALSE
  /\ name_to_be' = NoName
  /\ extra_args' = ExtraArgs(module.params)
  /\ locals' = NoLocals
  /\ pc' = "start"
  /\ phase' = "none"
  /\ idx' = 0
  /\ attempt' = 0
  /\ sleeps' = 0
  /\ fetched' = NoFetch
  /\ result' = Result0
  /\ outcome' = "none"
  /\ error' = "none"
  /\ calls' = <<>>
  /\ failed' = "none"
  /\ faults' = FALSE
  /\ got' = 0
  /\ afterTimeout' = FALSE
  /\ UNCHANGED <<remote, module, other, me>>

Next ==
  \/ init_by_id
  \/ find_vm_by_name
  \/ find_vm_by_name_refetch
  \/ check_mode_exit
  \/ create_vm
  \/ vm_created
  \/ present_already
  \/ do_changes
  \/ delete_vm
  \/ absent_already
  \/ state_unrecognized
  \/ wait_vm_running_status
  \/ configure_external_networks
  \/ attach_extra_disks
  \/ detach_extra_disks
  \/ delete_virtual_machine
  \/ vm_deleted
  \/ rerun

Spec == Init /\ [][Next]_vars

\* ------------------------------------------------- two concurrent processes
\* Two invocations of the module run at the same time against one
\* cloudspace; each is its own process with its own AnsibleModule, Vmachine
\* and result, and the two meet in the control plane only. The variables of
\* a pass belong to the process whose turn it is; the state of the process
\* that is waiting for the processor is kept in other.
Local ==
  [module |-> module, vm_id |-> vm_id, vm_info |-> vm_info, exists |-> exists,
   name_to_be |-> name_to_be, extra_args |-> extra_args, locals |-> locals,
   pc |-> pc, phase |-> phase, idx |-> idx, attempt |-> attempt,
   sleeps |-> sleeps, fetched |-> fetched, result |-> result,
   outcome |-> outcome, error |-> error, calls |-> calls, failed |-> failed,
   faults |-> faults, got |-> got, afterTimeout |-> afterTimeout]

\* The local state of a process that was handed m and has not made a call.
Fresh(m) ==
  [module |-> m, vm_id |-> Unset, vm_info |-> None, exists |-> FALSE,
   name_to_be |-> NoName, extra_args |-> ExtraArgs(m.params), locals |-> NoLocals,
   pc |-> "start", phase |-> "none", idx |-> 0, attempt |-> 0,
   sleeps |-> 0, fetched |-> NoFetch, result |-> Result0,
   outcome |-> "none", error |-> "none", calls |-> <<>>, failed |-> "none",
   faults |-> FALSE, got |-> 0, afterTimeout |-> FALSE]

\* The scheduler takes the processor from one process and gives it to the
\* other, between two steps (each step makes at most one remote call).
switch ==
  /\ other # Idle
  /\ other.pc # "done"
  /\ other' = Local
  /\ me' = 3 - me
  /\ module' = other.module
  /\ vm_id' = other.vm_id
  /\ vm_info' = other.vm_info
  /\ exists' = other.exists
  /\ name_to_be' = other.name_to_be
  /\ extra_args' = other.extra_args
  /\ locals' = other.locals
  /\ pc' = other.pc
  /\ phase' = other.phase
  /\ idx' = other.idx
  /\ attempt' = other.attempt
  /\ sleeps' = other.sleeps
  /\ fetched' = other.fetched
  /\ result' = other.result
  /\ outcome' = other.outcome
  /\ error' = other.error
  /\ calls' = other.calls
  /\ failed' = other.failed
  /\ faults' = other.faults
  /\ got' = other.got
  /\ afterTimeout' = other.afterTimeout
  /\ UNCHANGED <<remote, start, pass, prev>>

\* The playbooks of the two processes. The first is any playbook for "web"
\* (by name or by id) with at most one network or disk; the second creates
\* "Web" with one persistent disk, or deletes "Web" by name or by id.
OneElement(m) ==
  /\ Len(m.params.external_networks) + Len(m.params.persistent_disks) <= 1
  /\ m.params.user_data = NoId
  /\ ~m.params.permanently_delete

FirstModules == {m \in Modules : OneElement(m)}

SecondModules ==
  {[params |-> Playbook("present", [vm_id |-> NoId, name |-> "Web"],
                        [Defaults EXCEPT !.image_id = 45, !.persistent_disks = <<1>>]),
    check_mode |-> FALSE]}
  \cup {[params |-> Playbook("absent", [vm_id |-> i, name |-> "Web"], Defaults),
         check_mode |-> FALSE] : i \in 0..MaxVms}

\* The VMs of the cloudspace a playbook can mean, and the name it can create.
TargetIds(m, list) ==
  IF m.params.vm_id # NoId THEN {m.params.vm_id}
  ELSE {list[i].vm_id : i \in {j \in 1..Len(list) : list[j].name = m.params.name}}
TargetNames(m) == IF m.params.vm_id # NoId THEN {} ELSE {m.params.name}

\* The two playbooks target different VMs: no VM of the cloudspace is meant
\* by both, they create under different names, and an id a playbook gives is
\* the id of a VM that exists (not one the other process may be assigned).
Apart(m1, m2, list) ==
  /\ TargetIds(m1, list) \cap TargetIds(m2, list) = {}
  /\ TargetNames(m1) \cap TargetNames(m2) = {}
  /\ \A m \in {m1, m2} : m.params.vm_id # NoId => m.params.vm_id \in Ids(list)

InitPar ==
  /\ Started
  /\ module \in FirstModules
  /\ me = 1
  /\ other \in {Fresh(m) : m \in {s \in SecondModules : Apart(module, s, vms)}}

NextPar ==
  \/ init_by_id
  \/ find_vm_by_name
  \/ find_vm_by_name_refetch
  \/ check_mode_exit
  \/ create_vm
  \/ vm_created
  \/ present_already
  \/ do_changes
  \/ delete_vm
  \/ absent_already
  \/ state_unrecognized
  \/ wait_vm_running_status
  \/ configure_external_networks
  \/ attach_extra_disks
  \/ detach_extra_disks
  \/ delete_virtual_machine
  \/ vm_deleted
  \/ switch

SpecPar == InitPar /\ [][NextPar]_vars

\* ================================================================= claims
\* Vocabulary shared by the claims.
P == module.params
Done == pc = "done"
Returned == pc = "done" /\ outcome = "exit_json"
\* Vmachine.__init__ returned: the pass holds a Found / NotFound outcome.
Resolved == pc \notin {"start", "refetch"} /\ failed # "resolve"
Reconciles == Resolved /\ ~module.check_mode
ImageSet == P.image_id # NoId
\* The VM the parameters name is in the cloudspace the pass started with.
ExistsAtStart ==
  IF P.vm_id # NoId THEN P.vm_id \in Ids(start.vms)
  ELSE \E i \in 1..Len(start.vms) : start.vms[i].name = P.name
RemoteUnchanged == vms = start.vms /\ nics = start.nics /\ disks = start.disks
IsPrefix(s, t) == Len(s) <= Len(t) /\ \A i \in 1..Len(s) : s[i] = t[i]
OpsOf(op) == SelectSeq(calls, LAMBDA c : c.op = op)
Created == [changed |-> TRUE, status |-> <<"VM CREATED">>]
PresentAlready == [changed |-> FALSE, status |-> <<"VM PRESENT ALREADY">>]
Deleted == [changed |-> TRUE, status |-> <<"VM DELETED">>]
AbsentAlready == [changed |-> FALSE, status |-> <<"VM ABSENT ALREADY">>]

\* What the second of two passes must do after the first one created the VM.
SecondPassAfterCreate ==
  (/\ pass >= 2
   /\ prev.result = Created
   /\ ~prev.faults
   /\ Done
   /\ ~faults)
  => /\ Returned
     /\ result = PresentAlready
     /\ calls = <<>>
     /\ vm_id = prev.vm_id

\* C1 as written: for EVERY desired=present configuration with an image_id
\* (with or without vm_id), a pass that starts while the VM does not exist
\* and meets no failing remote call returns changed=true "VM CREATED", and the
\* next pass returns changed=false "VM PRESENT ALREADY", issues no mutating
\* call and resolves the vm id the create call returned.
C1_PresentIdempotentAnyConfig ==
  /\ (/\ Done
      /\ ~faults
      /\ ~module.check_mode
      /\ P.state = "present"
      /\ ImageSet
      /\ ~ExistsAtStart)
     => (Returned /\ result = Created)
  /\ SecondPassAfterCreate

\* C1 amended: the same for every desired=present configuration that gives no
\* vm_id (the VM is identified by name): first pass changed=true "VM CREATED",
\* second pass changed=false "VM PRESENT ALREADY", no mutating call, and the
\* second pass's vm id is the one the first pass's create call returned.
C1_PresentIdempotentByName ==
  /\ (/\ Done
      /\ ~faults
      /\ ~module.check_mode
      /\ P.state = "present"
      /\ P.vm_id = NoId
      /\ ImageSet
      /\ ~ExistsAtStart)
     => (Returned /\ result = Created /\ Len(calls) >= 1 /\ calls[1].vm = vm_id)
  /\ SecondPassAfterCreate

C1_Witness ==
  /\ pass = 2
  /\ Done
  /\ ~faults
  /\ prev.result = Created
  /\ ~prev.faults
  /\ result = PresentAlready
  /\ vm_id = prev.vm_id
  /\ Len(P.external_networks) = MaxList

\* C2: for every desired=absent configuration, by name or by vm_id, a pass
\* that starts while the VM exists and meets no failing remote call returns
\* changed=true "VM DELETED"; the next pass with the identical configuration,
\* started when that VM is gone, returns changed=false "VM ABSENT ALREADY"
\* and issues no mutating call.
C2_AbsentIdempotent ==
  /\ (/\ Done
      /\ ~faults
      /\ ~module.check_mode
      /\ P.state = "absent"
      /\ ExistsAtStart)
     => (Returned /\ result = Deleted)
  /\ (/\ pass >= 2
      /\ prev.result = Deleted
      /\ ~ExistsAtStart
      /\ Done
      /\ ~faults)
     => (Returned /\ result = AbsentAlready /\ calls = <<>>)

\* C3: a wait whose 12 fetches all saw a status other than RUNNING / HALTED
\* ends the pass in a Timeout failure after exactly 12 fetches, and no
\* mutating call is issued after it.
C3_TimeoutAbortsPass ==
  /\ Exhausted => attempt = Attempts
  /\ (Exhausted /\ Done) => (outcome = "raise" /\ error = "RuntimeError")
  /\ ~afterTimeout

\* C4: desired=present, image_id missing, resolve NotFound: the pass fails
\* with the configuration error (BadVMConfig) and has issued no mutating call.
C4_MissingImageIsConfigError ==
  (/\ Reconciles
   /\ P.state = "present"
   /\ ~ImageSet
   /\ ~exists)
  => /\ calls = <<>>
     /\ RemoteUnchanged
     /\ pc \in {"resolved", "done"}
     /\ Done => (outcome # "exit_json" /\ error = "BadVMConfig")

C4_Witness ==
  /\ Done
  /\ Resolved
  /\ P.state = "present"
  /\ ~ImageSet
  /\ ~exists
  /\ error = "BadVMConfig"
  /\ P.external_networks # <<>>

\* C5: vm_id set, any desired state, get-by-id answered 404 or 400: the pass
\* has failed with the configuration error (BadVMConfig through fail_json),
\* never resolved to NotFound or Found, and issued no mutating call.
C5_UnresolvedVmIdIsConfigError ==
  (P.vm_id # NoId /\ got \in {404, 400})
  => /\ Done
     /\ outcome = "fail_json"
     /\ error = "BadVMConfig"
     /\ ~Resolved
     /\ result = Result0
     /\ calls = <<>>
     /\ RemoteUnchanged

C5_Witness ==
  /\ P.vm_id # NoId
  /\ got = 404
  /\ P.state = "absent"
  /\ Done
  /\ error = "BadVMConfig"

\* The arguments of the attacher's calls, in the order they were issued.
NetArgs == [i \in 1..Len(OpsOf("attach_net")) |-> OpsOf("attach_net")[i].arg]
DiskArgs(op) == [i \in 1..Len(OpsOf(op)) |-> OpsOf(op)[i].arg.disk]
LastOp == IF calls = <<>> THEN "none" ELSE calls[Len(calls)].op
AttacherFailed(op) == Done /\ failed = "call" /\ LastOp = op

\* C6: each attacher loop issues its calls one per element in list order (the
\* calls issued so far are a prefix of the configured list, complete once
\* the loop is over); when the call for element k fails, exactly k calls were
\* issued, the effects of elements 1..k-1 are still in place, nothing was done
\* for later elements or later steps, and the ApiException ends the pass.
C6_AttacherInOrder ==
  /\ IsPrefix(NetArgs, P.external_networks)
  /\ IsPrefix(DiskArgs("attach_disk"), P.persistent_disks)
  /\ IsPrefix(DiskArgs("detach_disk"), P.persistent_disks)
  /\ \A i \in 1..Len(calls) : calls[i].op # "create" => calls[i].vm = vm_id
  /\ OpsOf("attach_disk") # <<>> => Len(NetArgs) = Len(P.external_networks)
  /\ result = Created => /\ Len(NetArgs) = Len(P.external_networks)
                         /\ Len(DiskArgs("attach_disk")) = Len(P.persistent_disks)
  /\ OpsOf("delete") # <<>> => Len(DiskArgs("detach_disk")) = Len(P.persistent_disks)
  /\ AttacherFailed("attach_net") =>
       /\ Len(NetArgs) = idx
       /\ \A j \in 1..(idx - 1) : <<vm_id, P.external_networks[j].network>> \in nics
       /\ \A j \in idx..Len(P.external_networks) :
            <<vm_id, P.external_networks[j].network>> \notin nics
       /\ OpsOf("attach_disk") = <<>>
       /\ outcome = "raise" /\ error = "ApiException"
  /\ AttacherFailed("attach_disk") =>
       /\ Len(DiskArgs("attach_disk")) = idx
       /\ \A j \in 1..(idx - 1) : <<vm_id, P.persistent_disks[j]>> \in disks
       /\ \A j \in idx..Len(P.persistent_disks) : <<vm_id, P.persistent_disks[j]>> \notin disks
       /\ \A j \in 1..Len(P.external_networks) :
            <<vm_id, P.external_networks[j].network>> \in nics
       /\ outcome = "raise" /\ error = "ApiException"
  /\ AttacherFailed("detach_disk") =>
       /\ Len(DiskArgs("detach_disk")) = idx
       /\ \A j \in 1..(idx - 1) : <<vm_id, P.persistent_disks[j]>> \notin disks
       /\ \A j \in idx..Len(P.persistent_disks) : <<vm_id, P.persistent_disks[j]>> \in disks
       /\ OpsOf("delete") = <<>>
       /\ vm_id \in Ids(vms)
       /\ outcome = "raise" /\ error = "ApiException"

C6_Witness ==
  /\ AttacherFailed("attach_net")
  /\ idx = 2
  /\ Len(P.external_networks) = 2
  /\ Len(NetArgs) = 2
  /\ <<vm_id, P.external_networks[1].network>> \in nics
  /\ <<vm_id, P.external_networks[2].network>> \notin nics

\* The attach calls a create pass owes to the VM id.
Attaches(id) ==
  [i \in 1..Len(P.external_networks) |-> Call("attach_net", id, P.external_networks[i])]
  \o [i \in 1..Len(P.persistent_disks) |->
        Call("attach_disk", id, [disk |-> P.persistent_disks[i]])]

\* C7: desired=present, VM not found, image_id set: the mutating calls are one
\* create call (for the requested name), then the network attaches in list
\* order, then the disk attaches in list order, all on the vm id the create
\* call returned; at every moment the calls issued are a prefix of that
\* sequence, and the pass that returns has issued all of it and reports
\* changed=true, "VM CREATED".
C7_CreateSequence ==
  /\ (Reconciles /\ P.state = "present" /\ ~exists /\ ImageSet) =>
       /\ calls # <<>> =>
            /\ calls[1].op = "create"
            /\ calls[1].arg.name = P.name
            /\ IsPrefix(Tail(calls), Attaches(calls[1].vm))
       /\ Returned =>
            /\ result = Created
            /\ calls # <<>>
            /\ calls[1].vm = vm_id
            /\ vm_id \notin Ids(start.vms)
            /\ [vm_id |-> vm_id, name |-> P.name] \in {vms[i] : i \in 1..Len(vms)}
            /\ Tail(calls) = Attaches(vm_id)
       /\ (Done /\ ~faults) => Returned
  /\ result = Created => (P.state = "present" /\ ~exists /\ ImageSet)

C7_Witness ==
  /\ Returned
  /\ result = Created
  /\ Len(P.external_networks) = 1
  /\ Len(P.persistent_disks) = 2
  /\ Len(calls) = 4
  /\ start.vms # <<>>

\* The calls a delete pass owes to the VM id.
DeleteCalls(id) ==
  [i \in 1..Len(P.persistent_disks) |->
     Call("detach_disk", id, [disk |-> P.persistent_disks[i]])]
  \o <<Call("delete", id, [permanently |-> P.permanently_delete])>>

\* C8: desired=absent, VM found: the mutating calls are one disk detach per
\* configured persistent disk in list order and then one delete call carrying
\* permanently_delete, all on the resolved vm id; at every moment the calls
\* issued are a prefix of that sequence, and the pass that returns has issued
\* all of it and reports changed=true, "VM DELETED".
C8_DeleteSequence ==
  /\ (Reconciles /\ P.state = "absent" /\ exists) =>
       /\ IsPrefix(calls, DeleteCalls(vm_id))
       /\ Returned =>
            /\ result = Deleted
            /\ calls = DeleteCalls(vm_id)
            /\ vm_id \in Ids(start.vms)
            /\ vm_id \notin Ids(vms)
       /\ (Done /\ ~faults) => Returned
  /\ result = Deleted => (P.state = "absent" /\ exists)

C8_Witness ==
  /\ Returned
  /\ result = Deleted
  /\ Len(P.persistent_disks) = 2
  /\ Len(calls) = 3
  /\ P.permanently_delete
  /\ P.vm_id = NoId

\* C9: desired=present with the VM found, or desired=absent with the VM not
\* found: the pass issues no mutating call, leaves the control plane as it
\* found it, and returns changed=false with "VM PRESENT ALREADY" resp.
\* "VM ABSENT ALREADY".
C9_NoOpWhenAgreed ==
  /\ (Reconciles /\ P.state = "present" /\ exists) =>
       /\ calls = <<>>
       /\ RemoteUnchanged
       /\ pc \in {"resolved", "done"}
       /\ Done => (Returned /\ result = PresentAlready)
  /\ (Reconciles /\ P.state = "absent" /\ ~exists) =>
       /\ calls = <<>>
       /\ RemoteUnchanged
       /\ pc \in {"resolved", "done"}
       /\ Done => (Returned /\ result = AbsentAlready)

C9_Witness ==
  /\ pass = 1
  /\ Returned
  /\ P.state = "present"
  /\ P.vm_id = NoId
  /\ exists
  /\ vm_id = 2
  /\ result = PresentAlready
  /\ P.persistent_disks # <<>>

\* C10: desired=change, VM found or not found: the pass issues no mutating
\* call and completes without error, returning changed=false and the status
\* "VM <id> DID NOT CHANGE" for the pass's vm id.
C10_ChangeIsReportedNoOp ==
  (Reconciles /\ P.state = "change") =>
    /\ calls = <<>>
    /\ RemoteUnchanged
    /\ Done => /\ Returned
               /\ ~result.changed
               /\ vm_id # Unset
               /\ result.status = DidNotChange(vm_id)

\* C11: a wait returns at the first fetch that answers RUNNING or HALTED, with
\* no further fetch and no further sleep (n fetches, n - 1 sleeps; one fetch
\* and no sleep when the first fetch is stable); a fetch that answers any other
\* status is followed by a sleep and, while fetches remain, by another fetch.
C11_EarlySuccess ==
  /\ (pc = "wait" /\ attempt > 0) =>
       /\ fetched.status \notin {"RUNNING", "HALTED"}
       /\ sleeps = attempt
       /\ attempt < Attempts
  /\ pc = "call" =>
       /\ attempt >= 1
       /\ fetched.status \in {"RUNNING", "HALTED"} => sleeps = attempt - 1
       /\ fetched.status \notin {"RUNNING", "HALTED"} =>
            (attempt = Attempts /\ sleeps = Attempts)

C11_Witness ==
  /\ pc = "call"
  /\ fetched.status = "HALTED"
  /\ attempt = 3
  /\ sleeps = 2

\* The pass issued the create call and the control plane answered with an id.
CreatedVm == calls # <<>> /\ calls[1].op = "create" /\ calls[1].vm # NoId

\* C12 as written: the result of a pass that created a VM holds changed=true,
\* the status "VM CREATED" and the vm id the create call assigned; the result
\* of a pass that created nothing holds no vm id.
C12_ResultCarriesCreatedId ==
  Returned =>
    IF CreatedVm
    THEN /\ result.changed
         /\ result.status = <<"VM CREATED">>
         /\ "vm_id" \in DOMAIN result
         /\ result["vm_id"] = calls[1].vm
    ELSE "vm_id" \notin DOMAIN result

\* C12 (amended): the result of a pass that created a VM is exactly
\* changed=true and status "VM CREATED"; no result carries a vm id (the keys
\* are changed and status, changed alone in check mode). The id the create
\* call assigned is held by the Vmachine object only (self.vm_id), and that
\* VM is in the cloudspace.
C12_ResultHasNoIdentifier ==
  Returned =>
    /\ DOMAIN result \subseteq {"changed", "status"}
    /\ "changed" \in DOMAIN result
    /\ CreatedVm => /\ result = Created
                    /\ vm_id = calls[1].vm
                    /\ vm_id \in Ids(vms)
    /\ ~CreatedVm => result # Created

C12_Witness ==
  /\ Returned
  /\ result = Created
  /\ vm_id = 3
  /\ calls[1].vm = 3
  /\ P.external_networks # <<>>

\* C13: when a get-by-id call of the resolve step (by vm_id, or the re-fetch
\* after a name match) is answered with a status that is neither 400 nor 404,
\* the pass ends there with that ApiException reaching the caller: no Found or
\* NotFound outcome, no other error kind, no mutating call.
C13_OtherErrorsPropagate ==
  got = 500 =>
    /\ Done
    /\ outcome = "raise"
    /\ error = "ApiException"
    /\ failed = "resolve"
    /\ ~exists
    /\ calls = <<>>

AttacherOps == {"attach_net", "attach_disk", "detach_disk"}

\* C14: every network attach, disk attach and disk detach is issued after a
\* wait of its own on the same vm id: at least one status of that VM was
\* fetched since the previous mutating call (the create call, or the attach /
\* detach before it) and before this one.
C14_WaitPerOperation ==
  [][(/\ Len(calls') = Len(calls) + 1
      /\ calls'[Len(calls')].op \in AttacherOps)
     => /\ pc = "call"
        /\ attempt >= 1
        /\ fetched.vm = vm_id
        /\ calls'[Len(calls')].vm = fetched.vm]_vars

\* A third mutating call (a disk attach) was issued and failed: its own wait
\* had fetched the status of the created VM twice.
C14_Witness ==
  /\ AttacherFailed("attach_disk")
  /\ Len(calls) = 3
  /\ calls[1].op = "create"
  /\ calls[2].op = "attach_net"
  /\ attempt = 2
  /\ fetched = [vm |-> calls[1].vm, status |-> "RUNNING"]

\* Positions, in the listing the pass started with, of the VMs named P.name.
Named == {i \in 1..Len(start.vms) : start.vms[i].name = P.name}
ListFailed == Done /\ failed = "resolve" /\ error = "ApiException"

\* C15: without a vm_id the resolver lists the VMs and scans the list in
\* order. With no VM of exactly that name (an empty list, or names differing
\* in case only) the outcome is NotFound. Otherwise the first VM of that name
\* is selected, even when later VMs share the name: its id becomes the pass's
\* vm id and the detail the re-fetch by that id answers becomes the VM's
\* record. Resolution issues no mutating call.
C15_FirstNameMatch ==
  (P.vm_id = NoId /\ calls = <<>>) =>
    /\ RemoteUnchanged
    /\ (pc # "start" /\ ~ListFailed) =>
         IF Named = {}
         THEN /\ pc # "refetch"
              /\ ~exists
              /\ vm_id = Unset
              /\ vm_info = None
              /\ name_to_be = P.name
         ELSE LET first == CHOOSE i \in Named : \A j \in Named : i <= j IN
              /\ vm_id = start.vms[first].vm_id
              /\ pc = "refetch" <=> got = 0
              /\ got = 200 => (exists /\ vm_info = start.vms[first])

C15_Witness ==
  /\ P.vm_id = NoId
  /\ pc = "resolved"
  /\ Len(start.vms) = 2
  /\ start.vms[1].name = "web"
  /\ start.vms[2].name = "web"
  /\ exists
  /\ vm_id = 1
  /\ vm_info = start.vms[1]

Issued(op) == \E i \in 1..Len(calls) : calls[i].op = op

\* C16: in every pass that returns a result, changed is true exactly when the
\* pass issued at least one mutating call. A create call is issued only for
\* desired=present with the VM not found, a delete call only for
\* desired=absent with the VM found, and no pass issues both.
C16_ChangedIsFaithful ==
  /\ Returned => (result.changed <=> calls # <<>>)
  /\ Issued("create") => (P.state = "present" /\ ~exists /\ calls[1].op = "create")
  /\ Issued("delete") => (P.state = "absent" /\ exists /\ LastOp = "delete")
  /\ ~(Issued("create") /\ Issued("delete"))

\* Two VMs share the name: the first pass deleted one, the second the other.
C16_Witness ==
  /\ pass = 2
  /\ prev.result = Deleted
  /\ Returned
  /\ result.changed
  /\ Issued("delete")
  /\ Len(calls) = 2

\* List elements the pass has still to handle, the current one included.
ElemsLeft ==
  IF pc \in {"start", "refetch", "resolved"}
  THEN Len(P.external_networks) + Len(P.persistent_disks)
  ELSE IF pc \notin {"wait", "call"} THEN 0
  ELSE IF phase = "nets"
  THEN Len(locals.external_networks) - idx + 1 + Len(locals.persistent_disks)
  ELSE Len(locals.persistent_disks) - idx + 1

\* Status fetches the pass may still make: Attempts for every wait not yet
\* begun, and what is left of the wait in progress.
FetchBudget ==
  IF pc = "wait" THEN Attempts * ElemsLeft - attempt
  ELSE IF pc = "call" THEN Attempts * (ElemsLeft - 1)
  ELSE Attempts * ElemsLeft

\* The steps of run_module after the loops, by position.
TailSteps ==
  IF pc = "start" THEN 6
  ELSE IF pc = "refetch" THEN 5
  ELSE IF pc = "resolved" THEN 4
  ELSE IF pc \in {"wait", "call"} THEN 3
  ELSE IF pc = "delete" THEN 2
  ELSE IF pc \in {"created", "deleted"} THEN 1
  ELSE 0

\* An upper bound on the steps the pass has left.
StepsLeft == FetchBudget + ElemsLeft + TailSteps

\* C17: every pass terminates. One wait makes at most 12 fetches; a pass
\* whose lists hold n networks and m disks starts with a budget of 12*(n+m)
\* status fetches, every fetch uses up at least one of them and no step adds
\* any; every step of the pass brings it closer to its end (no step is
\* retried), and a pass that has not ended can always take a step.
C17_PassTerminates ==
  /\ [](/\ attempt <= Attempts
        /\ FetchBudget >= 0
        /\ FetchBudget <= Attempts * (Len(P.external_networks) + Len(P.persistent_disks))
        /\ pc # "done" => ENABLED Next)
  /\ [][pass' = pass =>
          /\ StepsLeft' < StepsLeft
          /\ FetchBudget' <= FetchBudget
          /\ attempt' = attempt + 1 => FetchBudget' < FetchBudget]_vars

\* The last of four waits used all its twelve fetches: the budget is spent.
C17_Witness ==
  /\ pc = "call"
  /\ phase = "disks"
  /\ attempt = Attempts
  /\ Len(calls) = 4
  /\ FetchBudget = 0
  /\ afterTimeout

\* C19: in check mode a pass whose resolve succeeded exits right after the
\* resolve with changed=false (and nothing else in the result), whatever the
\* desired state and whether or not the VM was found; it issues no mutating
\* call and leaves the control plane as it found it.
C19_CheckModeIsReadOnly ==
  module.check_mode =>
    /\ calls = <<>>
    /\ RemoteUnchanged
    /\ Resolved =>
         /\ pc \in {"resolved", "done"}
         /\ Done => (Returned /\ result = [changed |-> FALSE] /\ error = "none")

\* Check mode, desired=present, no VM of that name, image set: outside check
\* mode this pass would create the VM.
C19_Witness ==
  /\ module.check_mode
  /\ Returned
  /\ P.state = "present"
  /\ ~exists
  /\ ImageSet
  /\ P.external_networks # <<>>
  /\ result = [changed |-> FALSE]

\* The keyword arguments of the pass's create call.
Kwargs == calls[1].arg.kwargs
Forwarded == {"image_id", "description", "vcpus", "memory", "disk_size",
              "enable_vm_agent", "boot_type", "private_ip"}

\* C20: the keyword arguments of the create call never hold user_data,
\* permanently_delete, external_networks, persistent_disks or
\* ephemeral_disks; they hold data_disks, equal to the configured
\* ephemeral_disks, exactly when that list is non-empty; user_data travels in
\* the payload argument; the other options are forwarded as configured. The networks and persistent disks taken out
\* of the arguments are the ones the pass attaches after the create call.
C20_CreatePayload ==
  (calls # <<>> /\ calls[1].op = "create") =>
    /\ DOMAIN Kwargs \cap {"user_data", "permanently_delete", "external_networks",
                           "persistent_disks", "ephemeral_disks"} = {}
    /\ "data_disks" \in DOMAIN Kwargs <=> P.ephemeral_disks # <<>>
    /\ "data_disks" \in DOMAIN Kwargs => Kwargs["data_disks"] = P.ephemeral_disks
    /\ calls[1].arg.payload =
         (IF P.user_data # NoId THEN [userdata |-> P.user_data] ELSE <<>>)
    /\ DOMAIN Kwargs \ {"data_disks"} = Forwarded
    /\ \A k \in Forwarded : Kwargs[k] = P[k]
    /\ calls[1].vm # NoId =>
         /\ locals.external_networks = P.external_networks
         /\ locals.persistent_disks = P.persistent_disks
         /\ IsPrefix(NetArgs, P.external_networks)
         /\ IsPrefix(DiskArgs("attach_disk"), P.persistent_disks)
    /\ Returned => /\ NetArgs = P.external_networks
                   /\ DiskArgs("attach_disk") = P.persistent_disks

C20_Witness ==
  /\ Returned
  /\ Len(calls) = 5
  /\ calls[1].op = "create"
  /\ "ephemeral_disks" \notin DOMAIN Kwargs
  /\ "data_disks" \in DOMAIN Kwargs
  /\ Kwargs["data_disks"] = <<30, 40>>
  /\ calls[5].arg = [disk |-> 1]

\* The VM of the cloudspace, as the two processes found it, that this
\* process's playbook means (NoId: none).
Own ==
  IF P.vm_id # NoId THEN P.vm_id
  ELSE IF Named = {} THEN NoId
  ELSE start.vms[CHOOSE i \in Named : \A j \in Named : i <= j].vm_id
FoundAtStart == Own \in Ids(start.vms)

\* What a pass with these parameters does when it runs alone against the
\* cloudspace and no remote call fails (C4, C7, C8, C9, C10, C19): the
\* mutating calls it has issued by the time it is done, and how it ends.
AloneCalls ==
  IF module.check_mode THEN <<>>
  ELSE IF P.state = "present" /\ ~FoundAtStart /\ ImageSet
  THEN <<Call("create", vm_id, [name |-> P.name, payload |-> Payload(P),
                                kwargs |-> CreateArgs(ExtraArgs(P))])>>
       \o Attaches(vm_id)
  ELSE IF P.state = "absent" /\ FoundAtStart THEN DeleteCalls(Own)
  ELSE <<>>

AloneEnd ==
  IF module.check_mode THEN [outcome |-> "exit_json", result |-> Result0]
  ELSE IF P.state = "present"
  THEN (IF FoundAtStart THEN [outcome |-> "exit_json", result |-> PresentAlready]
        ELSE IF ImageSet THEN [outcome |-> "exit_json", result |-> Created]
        ELSE [outcome |-> "raise", result |-> Result0])
  ELSE IF P.state = "absent"
  THEN (IF FoundAtStart THEN [outcome |-> "exit_json", result |-> Deleted]
        ELSE [outcome |-> "exit_json", result |-> AbsentAlready])
  ELSE IF P.state = "change"
  THEN (IF FoundAtStart
        THEN [outcome |-> "exit_json",
              result |-> [changed |-> FALSE, status |-> DidNotChange(Own)]]
        ELSE [outcome |-> "raise", result |-> Result0])
  ELSE [outcome |-> "fail_json", result |-> Result0]

\* C18: two passes that target different VMs run at the same time, their
\* steps interleaved in any way. Each pass resolves the VM it would resolve
\* alone, issues the mutating calls it would issue alone, all of them on its
\* own VM (never on the VM of the other pass), and ends with the result it
\* would end with alone; a VM a pass creates gets an id of its own.
C18_ConcurrentPassesIndependent ==
  /\ (Resolved /\ ~faults) => exists = FoundAtStart
  /\ (Resolved /\ ~faults /\ FoundAtStart /\ calls = <<>>) => vm_id = Own
  /\ \A i \in 1..Len(calls) :
       /\ calls[i].vm \notin TargetIds(other.module, start.vms)
       /\ calls[i].vm # NoId => calls[i].vm # other.vm_id
  /\ (Done /\ ~faults) =>
       /\ calls = AloneCalls
       /\ [outcome |-> outcome, result |-> result] = AloneEnd
       /\ result = Created => vm_id \notin Ids(start.vms)

\* Process 1 created VM 3 and waits to attach its disk; process 2 created VM 4
\* after that, attached its disk and is done.
C18_Witness ==
  /\ me = 1
  /\ pc = "call"
  /\ vm_id = 3
  /\ other.pc = "done"
  /\ other.result = Created
  /\ other.vm_id = 4
  /\ Len(other.calls) = 2

====
